---- MODULE Spec2Model ----
(***************************************************************************)
(* Model of the semantic job-matching service: role detection, skill       *)
(* extraction and Jaccard overlap, index build / load, the candidate loop  *)
(* of VectorStore.search, and the Flask handlers that share one global     *)
(* VectorStore.                                                            *)
(*                                                                         *)
(* Texts are sequences of one-character strings, so that lower-casing,     *)
(* substring tests ("k in t"), regular-expression alternatives and         *)
(* split(',') are computed the way the Python code computes them.          *)
(***************************************************************************)
EXTENDS Integers, Sequences, FiniteSets, TLC

(***************************************************************************)
(* Bounds of the model.                                                    *)
(***************************************************************************)
\* longest text, in words of WordPool, given to detect_role on its own
MaxWords == 3
\* number of skill tokens the sets given to _jaccard_similarity draw from
MaxSkills == 3

\* rows of the jobs CSV
MaxJobs == 3
\* largest top_k asked of search
MaxTopK == 2
\* /index/build requests handled by one run of the service
MaxBuilds == 1

VARIABLES
    fn_arg,         \* argument(s) of the pure function under call
    fn_ret,         \* its return value once fn_pc = "done"
    fn_pc,          \* "call" before the function ran, "done" after
    disk,           \* the files under data_dir: jobs CSV, index, metadata, fingerprint
    stores,         \* the VectorStore objects created so far, in creation order
    vector_store,   \* app.py's global: a position in stores, 0 for None
    bld,            \* the /index/build request in progress, or the library call
    srch,           \* the VectorStore.search call in progress
    req             \* the /search request in progress

fnvars == <<fn_arg, fn_ret, fn_pc>>
appvars == <<disk, stores, vector_store, bld, srch, req>>
vars == <<fn_arg, fn_ret, fn_pc, disk, stores, vector_store, bld, srch, req>>

(***************************************************************************)
(* Text primitives: str.lower() and the substring test "k in t".           *)
(***************************************************************************)
UpperCase == <<"A","B","C","D","E","F","G","H","I","J","K","L","M",
               "N","O","P","Q","R","S","T","U","V","W","X","Y","Z">>
LowerCase == <<"a","b","c","d","e","f","g","h","i","j","k","l","m",
               "n","o","p","q","r","s","t","u","v","w","x","y","z">>

LowerChar(c) ==
    IF \E i \in 1..26 : UpperCase[i] = c
    THEN LowerCase[CHOOSE i \in 1..26 : UpperCase[i] = c]
    ELSE c

\* str.lower()
lower(t) == [i \in 1..Len(t) |-> LowerChar(t[i])]

\* Python's "k in t" for strings
Contains(k, t) ==
    \E i \in 0..(Len(t) - Len(k)) : SubSeq(t, i + 1, i + Len(k)) = k

(***************************************************************************)
(* VectorStore.detect_role (vector_store.py 75-102)                        *)
(***************************************************************************)
fullstack_keywords ==
    { <<"f","u","l","l"," ","s","t","a","c","k">>,   \* full stack
      <<"f","u","l","l","-","s","t","a","c","k">>,   \* full-stack
      <<"r","e","a","c","t">>,   \* react
      <<"a","n","g","u","l","a","r">>,   \* angular
      <<"v","u","e">>,   \* vue
      <<"s","p","r","i","n","g"," ","b","o","o","t">>,   \* spring boot
      <<"n","o","d","e">>,   \* node
      <<"e","x","p","r","e","s","s">>,   \* express
      <<"t","y","p","e","s","c","r","i","p","t">>,   \* typescript
      <<"j","a","v","a","s","c","r","i","p","t">>,   \* javascript
      <<"j","a","v","a">>,   \* java
      <<"f","r","o","n","t","e","n","d">>,   \* frontend
      <<"b","a","c","k","e","n","d">>,   \* backend
      <<"w","e","b"," ","d","e","v","e","l","o","p","e","r">>,   \* web developer
      <<"s","o","f","t","w","a","r","e"," ","e","n","g","i","n","e","e","r">>,   \* software engineer
      <<"d","e","v","e","l","o","p","e","r">>   \* developer
    }

devops_keywords ==
    { <<"d","e","v","o","p","s">>,   \* devops
      <<"s","r","e">>,   \* sre
      <<"s","i","t","e"," ","r","e","l","i","a","b","i","l","i","t","y">>,   \* site reliability
      <<"t","e","r","r","a","f","o","r","m">>,   \* terraform
      <<"a","n","s","i","b","l","e">>,   \* ansible
      <<"j","e","n","k","i","n","s">>,   \* jenkins
      <<"k","u","b","e","r","n","e","t","e","s">>,   \* kubernetes
      <<"e","k","s">>,   \* eks
      <<"h","e","l","m">>,   \* helm
      <<"a","r","g","o">>,   \* argo
      <<"c","i","/","c","d">>,   \* ci/cd
      <<"d","o","c","k","e","r">>,   \* docker
      <<"i","n","f","r","a","s","t","r","u","c","t","u","r","e">>,   \* infrastructure
      <<"p","l","a","t","f","o","r","m"," ","e","n","g","i","n","e","e","r">>,   \* platform engineer
      <<"c","l","o","u","d"," ","e","n","g","i","n","e","e","r">>,   \* cloud engineer
      <<"a","w","s">>,   \* aws
      <<"a","z","u","r","e">>,   \* azure
      <<"g","c","p">>   \* gcp
    }

\* sum(1 for k in keywords if k in t)
Hits(keywords, t) == Cardinality({k \in keywords : Contains(k, t)})

detect_role_ge(text) ==
    LET t == lower(text)
        fs_hits == Hits(fullstack_keywords, t)
        dv_hits == Hits(devops_keywords, t)
    IN  IF fs_hits = 0 /\ dv_hits = 0 THEN "general"
        ELSE IF fs_hits >= dv_hits * 2 THEN "fullstack"
        ELSE IF dv_hits >= fs_hits * 2 THEN "devops"
        ELSE "general"

detect_role(text) ==
    LET t == lower(text)
        fs_hits == Hits(fullstack_keywords, t)
        dv_hits == Hits(devops_keywords, t)
    IN  IF fs_hits = 0 /\ dv_hits = 0 THEN "general"
        ELSE IF fs_hits > dv_hits * 2 THEN "fullstack"
        ELSE IF dv_hits > fs_hits * 2 THEN "devops"
        ELSE "general"

(***************************************************************************)
(* VectorStore._jaccard_similarity (vector_store.py 417-423).  The float   *)
(* quotient intersection / union is kept as the exact fraction num/den.    *)
(***************************************************************************)
Frac(n, d) == [num |-> n, den |-> d]

\* a = b, a < b and a <= b for fractions with positive denominators
FracEq(a, b) == a.num * b.den = b.num * a.den
FracLt(a, b) == a.num * b.den < b.num * a.den
FracLe(a, b) == a.num * b.den <= b.num * a.den

_jaccard_similarity_sum(set1, set2) ==
    IF set1 = {} /\ set2 = {} THEN Frac(0, 1)
    ELSE LET intersection == Cardinality(set1 \cap set2)
             union == Cardinality(set1) + Cardinality(set2)
         IN  IF union > 0 THEN Frac(intersection, union) ELSE Frac(0, 1)

_jaccard_similarity(set1, set2) ==
    IF set1 = {} /\ set2 = {} THEN Frac(0, 1)
    ELSE LET intersection == Cardinality(set1 \cap set2)
             union == Cardinality(set1 \cup set2)
         IN  IF union > 0 THEN Frac(intersection, union) ELSE Frac(0, 1)

(***************************************************************************)
(* VectorStore.extract_skills (vector_store.py 104-121)                    *)
(***************************************************************************)
tech_skills ==
    << <<"j","a","v","a">>,   \* java
      <<"p","y","t","h","o","n">>,   \* python
      <<"j","a","v","a","s","c","r","i","p","t">>,   \* javascript
      <<"t","y","p","e","s","c","r","i","p","t">>,   \* typescript
      <<"r","e","a","c","t">>,   \* react
      <<"a","n","g","u","l","a","r">>,   \* angular
      <<"v","u","e">>,   \* vue
      <<"s","p","r","i","n","g"," ","b","o","o","t">>,   \* spring boot
      <<"n","o","d","e",".","j","s">>,   \* node.js
      <<"e","x","p","r","e","s","s">>,   \* express
      <<"p","o","s","t","g","r","e","s","q","l">>,   \* postgresql
      <<"m","o","n","g","o","d","b">>,   \* mongodb
      <<"r","e","d","i","s">>,   \* redis
      <<"a","w","s">>,   \* aws
      <<"a","z","u","r","e">>,   \* azure
      <<"g","c","p">>,   \* gcp
      <<"d","o","c","k","e","r">>,   \* docker
      <<"k","u","b","e","r","n","e","t","e","s">>,   \* kubernetes
      <<"j","e","n","k","i","n","s">>,   \* jenkins
      <<"g","i","t">>,   \* git
      <<"h","i","b","e","r","n","a","t","e">>,   \* hibernate
      <<"j","u","n","i","t">>,   \* junit
      <<"j","d","b","c">>,   \* jdbc
      <<"h","t","m","l">>,   \* html
      <<"c","s","s">>,   \* css
      <<"b","o","o","t","s","t","r","a","p">>   \* bootstrap
    >>

extract_skills(resume_text) ==
    LET text_lower == lower(resume_text)
    IN  { tech_skills[i] :
            i \in { j \in 1..Len(tech_skills) : Contains(tech_skills[j], text_lower) } }

(***************************************************************************)
(* Values read from the CSV.  A cell left empty is read by pandas as NaN,  *)
(* which is truthy and has no .lower(); NaN is the one-element sequence    *)
(* below, different from every text (texts hold one-character strings).    *)
(***************************************************************************)
NaN == <<"NaN">>

\* str.split(',')
RECURSIVE split_comma(_)
split_comma(s) ==
    IF \A i \in 1..Len(s) : s[i] # "," THEN <<s>>
    ELSE LET p == CHOOSE i \in 1..Len(s) :
                      s[i] = "," /\ \A j \in 1..(i - 1) : s[j] # ","
         IN  <<SubSeq(s, 1, p - 1)>> \o split_comma(SubSeq(s, p + 1, Len(s)))

\* set(s.lower().split(','))
skills_field_set(s) ==
    LET parts == split_comma(lower(s)) IN { parts[i] : i \in 1..Len(parts) }

(***************************************************************************)
(* Title patterns of the role pre-filter (vector_store.py 296-309):        *)
(* Series.str.contains(regex, case=False, na=False).  Each regex is a      *)
(* plain alternation; full[- ]?stack is written out as its three strings.  *)
(***************************************************************************)
FullstackPattern ==
    { <<"f","u","l","l","s","t","a","c","k">>,   \* fullstack
      <<"f","u","l","l","-","s","t","a","c","k">>,   \* full-stack
      <<"f","u","l","l"," ","s","t","a","c","k">>,   \* full stack
      <<"f","r","o","n","t","e","n","d">>,   \* frontend
      <<"b","a","c","k","e","n","d">>,   \* backend
      <<"s","o","f","t","w","a","r","e"," ","e","n","g","i","n","e","e","r">>,   \* software engineer
      <<"j","a","v","a"," ","d","e","v","e","l","o","p","e","r">>,   \* java developer
      <<"w","e","b"," ","d","e","v","e","l","o","p","e","r">>,   \* web developer
      <<"d","e","v","e","l","o","p","e","r">>   \* developer
    }

DevopsPattern ==
    { <<"d","e","v","o","p","s">>,   \* devops
      <<"s","r","e">>,   \* sre
      <<"s","i","t","e"," ","r","e","l","i","a","b","i","l","i","t","y">>,   \* site reliability
      <<"p","l","a","t","f","o","r","m">>,   \* platform
      <<"i","n","f","r","a">>,   \* infra
      <<"c","l","o","u","d"," ","e","n","g","i","n","e","e","r">>   \* cloud engineer
    }

str_contains(title, pattern) ==
    /\ title # NaN
    /\ \E alt \in pattern : Contains(alt, lower(title))

(***************************************************************************)
(* Exact arithmetic on scores.  The code computes in floating point; the   *)
(* model computes the same expressions over the rationals, each value a    *)
(* reduced fraction num/den with den > 0.                                  *)
(***************************************************************************)
Abs(x) == IF x < 0 THEN -x ELSE x

RECURSIVE GCD(_, _)
GCD(a, b) == IF b = 0 THEN a ELSE GCD(b, a % b)

Reduce(f) ==
    LET g == GCD(Abs(f.num), f.den)
    IN  IF g = 0 THEN Frac(0, 1) ELSE Frac(f.num \div g, f.den \div g)

FracAdd(a, b) == Reduce(Frac(a.num * b.den + b.num * a.den, a.den * b.den))
FracMul(a, b) == Reduce(Frac(a.num * b.num, a.den * b.den))
FracMin(a, b) == IF FracLt(b, a) THEN b ELSE a

(***************************************************************************)
(* The embedding provider and the FAISS index are external.  A vector is   *)
(* named by the text it embeds (the provider is deterministic), and the    *)
(* inner product of two unit vectors is given by a symmetric table.        *)
(* IndexFlatIP returns binary32 distances, so every table value is a       *)
(* binary32 number: an integer number of 1/32 (32 is 1.0).  The table      *)
(* covers a query text with a description text and the pairs of            *)
(* tests/test_embed_basic.py; it says nothing of any other pair.  For the  *)
(* pairs of the table the rational scores computed below and the float64   *)
(* scores of the code compare alike with every threshold and with each     *)
(* other; 0.0 with a skill overlap of 5/11 gives a composite of exactly    *)
(* 0.15 in both, and with 6/11 exactly 0.18.                               *)
(***************************************************************************)
T_fs  == <<"J","a","v","a"," ","R","e","a","c","t"," ","d","e","v","e","l","o","p","e","r">>
T_dv  == <<"d","o","c","k","e","r"," ","s","r","e">>
T_gen == <<"c","h","e","f">>
T_mix == <<"j","a","v","a"," ","d","o","c","k","e","r">>
T_data == <<"A","W","S"," ","e","t","l">>
\* five and six of the eleven skills of J4
T_five == <<"g","i","t"," ","c","s","s"," ","v","u","e"," ","h","t","m","l"," ","j","d","b","c">>
T_six == <<"g","i","t"," ","c","s","s"," ","v","u","e"," ","h","t","m","l"," ","j","d","b","c"," ","r","e","d","i","s">>
\* the texts of test_similarity_calculation
T_javadev == <<"J","a","v","a"," ","d","e","v","e","l","o","p","e","r"," ","w","i","t","h"," ","S","p","r","i","n","g"," ","B","o","o","t"," ","e","x","p","e","r","i","e","n","c","e">>
T_softeng == <<"S","o","f","t","w","a","r","e"," ","e","n","g","i","n","e","e","r"," ","w","o","r","k","i","n","g"," ","w","i","t","h"," ","J","a","v","a"," ","a","n","d"," ","S","p","r","i","n","g">>
T_marketing == <<"M","a","r","k","e","t","i","n","g"," ","m","a","n","a","g","e","r"," ","w","i","t","h"," ","s","o","c","i","a","l"," ","m","e","d","i","a"," ","e","x","p","e","r","i","e","n","c","e">>

\* model.encode followed by _normalize_embeddings
encode(text) == [of |-> text]

InnerProduct(u, v) ==
    LET pair == {u.of, v.of}
    IN  CASE u.of = v.of -> 32
          [] pair = {T_fs, T_dv} -> -3
          [] pair = {T_fs, T_gen} -> 6
          [] pair = {T_fs, T_mix} -> 16
          [] pair = {T_fs, T_data} -> 3
          [] pair = {T_fs, T_five} -> 6
          [] pair = {T_fs, T_six} -> 6
          [] pair = {T_dv, T_gen} -> 7
          [] pair = {T_dv, T_mix} -> 15
          [] pair = {T_dv, T_data} -> 19
          [] pair = {T_dv, T_five} -> -3
          [] pair = {T_dv, T_six} -> -3
          [] pair = {T_gen, T_mix} -> 8
          [] pair = {T_gen, T_data} -> 7
          [] pair = {T_gen, T_five} -> 4
          [] pair = {T_gen, T_six} -> 4
          [] pair = {T_data, T_mix} -> 12
          [] pair = {T_data, T_five} -> 0
          [] pair = {T_data, T_six} -> 0
          [] pair = {T_javadev, T_softeng} -> 22
          [] pair = {T_javadev, T_marketing} -> 6

\* float(similarity_score): the binary32 value, exactly
SimValue(s) == Reduce(Frac(s, 32))

\* what IndexFlatIP.search reports in the slots past ntotal: label -1 and
\* the lowest score (here -1000.0)
PadEntry == [sim |-> -32000, idx |-> -1]

\* the orders in which m of the rows can come out best first: each next
\* row is one of largest inner product among those left (sim[r] is row r's)
RECURSIVE best_first(_, _, _)
best_first(left, sim, m) ==
    IF m = 0 \/ left = {} THEN {<<>>}
    ELSE UNION { { <<r>> \o rest : rest \in best_first(left \ {r}, sim, m - 1) } :
                 r \in { x \in left : \A y \in left : sim[y] <= sim[x] } }

\* faiss IndexFlatIP.search(query, k): the k rows of largest inner product,
\* best first; rows of equal inner product in an order the library picks
index_search(index, qv, k) ==
    LET n == Len(index.vecs)
        sim == [r \in 0..(n - 1) |-> InnerProduct(qv, index.vecs[r + 1])]
    IN  { [i \in 1..k |-> IF i <= Len(p) THEN [sim |-> sim[p[i]], idx |-> p[i]]
                          ELSE PadEntry] : p \in best_first(0..(n - 1), sim, k) }

(***************************************************************************)
(* The store, the files under data_dir, and the jobs CSV.                  *)
(*                                                                         *)
(* A CSV row keeps the fields the code reads: id, title, skills, jd_text   *)
(* (company and location are copied and never read).  jobs_enhanced.csv    *)
(* and its fallback jobs.csv are one resolved file.  Every index and       *)
(* metadata table carries the number of the build pass that produced it    *)
(* (0: none), which is how "from the same build pass" is told.             *)
(***************************************************************************)
BaseCols == {"id", "title", "company", "location", "jd_text"}

NoIndex == [pass |-> 0, d |-> 0, vecs |-> <<>>]
NoMeta == [pass |-> 0, cols |-> {}, rows |-> <<>>]

\* VectorStore.__init__
NewStore ==
    [ model_name |-> "all-MiniLM-L6-v2", model |-> FALSE,
      index_set |-> FALSE, index |-> NoIndex,
      meta_set |-> FALSE, job_metadata |-> NoMeta ]

\* embeddings.shape[1] of the configured sentence-transformer model
Dimension(model_name) == IF model_name = "all-MiniLM-L6-v2" THEN 384 ELSE 768

\* df[cols].copy(): the rows of the CSV cut down to the metadata columns
select_columns(csv, cols, pass) ==
    [ pass |-> pass, cols |-> cols,
      rows |-> [i \in 1..Len(csv.rows) |->
                  [ id |-> csv.rows[i].id, title |-> csv.rows[i].title,
                    skills |-> IF "skills" \in cols THEN csv.rows[i].skills ELSE NaN ]] ]

\* build_index, lines 163-170
build_metadata(store, csv, pass) ==
    LET metadata_cols == {"id", "title", "company", "location"}
                            \cup (IF "skills" \in csv.cols THEN {"skills"} ELSE {})
    IN  [store EXCEPT !.meta_set = TRUE,
                      !.job_metadata = select_columns(csv, metadata_cols, pass)]

\* build_index, lines 180-181, were the index kept from one build to the next
build_create_index_keep(store, pass) ==
    IF store.index_set THEN [store EXCEPT !.index.pass = pass]
    ELSE [store EXCEPT !.index_set = TRUE,
                       !.index = [pass |-> pass, d |-> Dimension(store.model_name),
                                  vecs |-> <<>>]]

\* build_index, lines 180-181: a new, empty IndexFlatIP
build_create_index(store, pass) ==
    [store EXCEPT !.index_set = TRUE,
                  !.index = [pass |-> pass, d |-> Dimension(store.model_name), vecs |-> <<>>]]

\* build_index, line 182: index.add(embeddings) appends one vector per CSV row
build_add(store, csv) ==
    [store EXCEPT !.index.vecs =
        @ \o [i \in 1..Len(csv.rows) |-> encode(csv.rows[i].jd_text)]]

\* _save_index, _save_metadata, _save_model_fingerprint
save_index(d, store) == [d EXCEPT !.index_file = [exists |-> TRUE, index |-> store.index]]
save_metadata(d, store) ==
    [d EXCEPT !.meta_file = [exists |-> TRUE, meta |-> store.job_metadata]]
save_model_fingerprint(d, store) ==
    [d EXCEPT !.fp_file =
        [ exists |-> TRUE, pass |-> store.index.pass, model_name |-> store.model_name,
          embedding_dim |-> store.index.d ]]

\* a file that was opened for writing, which creates it or cuts it to length
\* 0, and whose write then failed: what is left is no index, no parquet file
\* and no JSON
TruncatedFile == [exists |-> TRUE, garbled |-> TRUE]

\* what a save that raised leaves on disk: it failed before the file was
\* opened and the file is as it was, or it failed in the write and the file
\* is truncated; none of the three saves removes or restores its file
save_failed(d, file) == {d, [d EXCEPT ![file] = TruncatedFile]}

\* build_index as a whole, when no step fails
build_index_store(store, csv, pass) ==
    build_add(build_create_index(
        build_metadata([store EXCEPT !.model = TRUE], csv, pass), pass), csv)

build_index_disk(d, built) ==
    save_model_fingerprint(save_metadata(save_index(d, built), built), built)

(***************************************************************************)
(* VectorStore.search (vector_store.py 270-415) as a frame: the locals of  *)
(* one call, the position in the candidate loop, and what it returned.     *)
(* log records, per candidate handled, what the loop did with it.          *)
(***************************************************************************)
IdleSearch ==
    [ pc |-> "idle", query |-> <<>>, top_k |-> 0, role_arg |-> "None", role |-> "None",
      filtered |-> {}, search_k |-> 0, cands |-> <<>>, i |-> 0, resume_skills |-> {},
      results |-> <<>>, seen_jobs |-> {}, log |-> <<>>, err |-> "none", ret |-> <<>> ]

\* line 282
guard_fails_index_only(store) == ~store.index_set

guard_fails(store) == ~store.index_set \/ ~store.meta_set

\* lines 287-288
resolve_role(role_arg, query) ==
    IF role_arg = "None" THEN detect_role(query) ELSE role_arg

\* lines 295-309, were no mask applied
filter_rows_unfiltered(meta, role) == 0..(Len(meta.rows) - 1)

\* lines 295-309: the row labels of filtered_metadata
filter_rows(meta, role) ==
    LET all == 0..(Len(meta.rows) - 1)
    IN  IF role = "fullstack"
        THEN { r \in all : str_contains(meta.rows[r + 1].title, FullstackPattern) }
        ELSE IF role = "devops"
        THEN { r \in all : str_contains(meta.rows[r + 1].title, DevopsPattern) }
        ELSE all

\* lines 295-309, were the mask applied to self.job_metadata itself
job_metadata_after_filter_inplace(meta, role) ==
    LET keep == filter_rows(meta, role)
        kept[n \in 0..Len(meta.rows)] ==
            IF n = 0 THEN <<>>
            ELSE IF (n - 1) \in keep THEN Append(kept[n - 1], meta.rows[n])
            ELSE kept[n - 1]
    IN  [meta EXCEPT !.rows = kept[Len(meta.rows)]]

\* lines 295-309: self.job_metadata after the role filter; the filter starts
\* from a copy (line 295) and the mask selection makes a new frame, so the
\* frame of the store keeps every row
job_metadata_after_filter(meta, role) == meta

\* lines 332 and 381-385: self.job_metadata after a candidate is scored;
\* job_info is the dict that to_dict() made of the row, and update() writes
\* score, similarity and skillOverlap to that dict only
job_metadata_after_update(meta, idx) == meta

\* line 312
SearchK(top_k, meta) ==
    IF top_k * 20 < Len(meta.rows) THEN top_k * 20 ELSE Len(meta.rows)

\* DataFrame.iloc[idx]; a negative position counts from the end
iloc(rows, idx) == rows[IF idx < 0 THEN Len(rows) + idx + 1 ELSE idx + 1]
iloc_in_range(rows, idx) == -Len(rows) <= idx /\ idx < Len(rows)

\* lines 371-376
min_threshold(role) ==
    IF role = "fullstack" THEN Frac(25, 100)
    ELSE IF role = "devops" THEN Frac(22, 100)
    ELSE Frac(20, 100)

\* lines 362-365, without the min of line 368
composite_score_unclamped(similarity, skill_overlap) ==
    FracMul(FracAdd(FracMul(Frac(70, 100), similarity),
                    FracMul(Frac(30, 100), skill_overlap)), Frac(11, 10))

\* lines 362-368
composite_score(similarity, skill_overlap) ==
    LET composite == FracAdd(FracMul(Frac(70, 100), similarity),
                             FracMul(Frac(30, 100), skill_overlap))
    IN  FracMin(FracMul(composite, Frac(11, 10)), Frac(1, 1))

\* line 379: the candidate is dropped
below_threshold_no_relaxation(score, role, n_results, top_k) ==
    FracLt(score, min_threshold(role))

below_threshold_floor_inclusive(score, role, n_results, top_k) ==
    /\ FracLt(score, min_threshold(role))
    /\ (n_results >= top_k \/ FracLe(score, Frac(15, 100)))

below_threshold(score, role, n_results, top_k) ==
    /\ FracLt(score, min_threshold(role))
    /\ (n_results >= top_k \/ FracLt(score, Frac(15, 100)))

\* line 313: IndexFlatIP.search takes queries of the dimension of the index
\* and asserts it; the query has the dimension of the configured model
query_dim_mismatch(store) == Dimension(store.model_name) # store.index.d

\* lines 282-326 up to the loop, for the neighbours the index returned
search_enter(store, csv, query, top_k, role_arg, cands) ==
    LET role == resolve_role(role_arg, query)
        f == [IdleSearch EXCEPT !.query = query, !.top_k = top_k,
                                !.role_arg = role_arg, !.role = role,
                                !.filtered = filter_rows(store.job_metadata, role),
                                !.search_k = SearchK(top_k, store.job_metadata),
                                !.cands = cands, !.i = 1]
    IN  IF query_dim_mismatch(store)
        THEN [f EXCEPT !.pc = "raised", !.err = "AssertionError"]
        ELSE IF ~csv.exists
        THEN [f EXCEPT !.pc = "raised", !.err = "FileNotFoundError"]
        ELSE [f EXCEPT !.pc = IF Len(cands) = 0 THEN "sort" ELSE "loop",
                       !.resume_skills = extract_skills(query)]

\* line 329: the row index is past the metadata, or is among the job ids seen
skip_index(idx, meta, seen_jobs) == idx >= Len(meta.rows) \/ idx \in seen_jobs

\* line 335
seen_before_never(job_id, seen_jobs) == FALSE

seen_before(job_id, seen_jobs) == job_id \in seen_jobs

\* line 340: the row did not pass the role filter
outside_role_filter_any(filtered, idx, role) ==
    idx \notin filtered /\ role # "general"

outside_role_filter(filtered, idx, role) ==
    filtered # {} /\ idx \notin filtered /\ role # "general"

\* line 390: the loop breaks
enough_results_never(results, top_k) == FALSE

enough_results_above(results, top_k) == Len(results) > top_k

enough_results(results, top_k) == Len(results) >= top_k

\* the frame once candidate f.i is done with: the loop goes on to the next
\* candidate, or is over
advance(f, outcome, score, job_skills) ==
    LET c == f.cands[f.i]
        over == \/ f.i >= Len(f.cands)
                \/ (outcome = "accepted" /\ enough_results(f.results, f.top_k))
    IN  [f EXCEPT !.i = f.i + 1,
                  !.log = Append(@, [idx |-> c.idx, sim |-> c.sim, outcome |-> outcome,
                                     score |-> score, job_skills |-> job_skills,
                                     n_before |-> IF outcome = "accepted"
                                                  THEN Len(f.results) - 1
                                                  ELSE Len(f.results)]),
                  !.pc = IF over THEN "sort" ELSE "loop"]

raise(f, err) == [f EXCEPT !.pc = "raised", !.err = err]

\* lines 328-391: one iteration of the candidate loop
loop_body(f, store, df) ==
    LET c == f.cands[f.i]
        idx == c.idx
        meta == store.job_metadata
    IN  IF skip_index(idx, meta, f.seen_jobs)
        THEN advance(f, "skipped_index", Frac(0, 1), {})
        ELSE
        LET job_info == iloc(meta.rows, idx)
            job_id == job_info.id
        IN  IF seen_before(job_id, f.seen_jobs)
            THEN advance(f, "skipped_seen", Frac(0, 1), {})
            ELSE
            LET g == [f EXCEPT !.seen_jobs = @ \cup {job_id}]
            IN  IF outside_role_filter(f.filtered, idx, f.role)
                THEN advance(g, "skipped_role", Frac(0, 1), {})
                ELSE IF ~iloc_in_range(df.rows, idx)
                THEN raise(g, "IndexError")
                ELSE IF "skills" \in meta.cols /\ job_info.skills = NaN
                THEN raise(g, "AttributeError")
                ELSE
                LET job_skills ==
                        IF "skills" \in meta.cols /\ Len(job_info.skills) > 0
                        THEN skills_field_set(job_info.skills)
                        ELSE extract_skills(iloc(df.rows, idx).jd_text)
                    skill_overlap == _jaccard_similarity(f.resume_skills, job_skills)
                    score == composite_score(SimValue(c.sim), skill_overlap)
                IN  IF below_threshold(score, f.role, Len(f.results), f.top_k)
                    THEN advance(g, "dropped", score, job_skills)
                    ELSE advance(
                           [g EXCEPT !.results = Append(@,
                               [ id |-> job_id, title |-> job_info.title, score |-> score,
                                 similarity |-> SimValue(c.sim),
                                 skillOverlap |-> skill_overlap ])],
                           "accepted", score, job_skills)

\* a descending sort that puts the later of two equal scores first
RECURSIVE insert_desc_equal_first(_, _)
insert_desc_equal_first(sorted, x) ==
    IF sorted = <<>> THEN <<x>>
    ELSE IF FracLe(Head(sorted).score, x.score) THEN <<x>> \o sorted
    ELSE <<Head(sorted)>> \o insert_desc_equal_first(Tail(sorted), x)

\* list.sort(key=score, reverse=True): stable, best score first
RECURSIVE insert_desc(_, _)
insert_desc(sorted, x) ==
    IF sorted = <<>> THEN <<x>>
    ELSE IF FracLt(Head(sorted).score, x.score) THEN <<x>> \o sorted
    ELSE <<Head(sorted)>> \o insert_desc(Tail(sorted), x)

RECURSIVE sort_desc(_)
sort_desc(results) ==
    IF results = <<>> THEN <<>>
    ELSE insert_desc(sort_desc(SubSeq(results, 1, Len(results) - 1)),
                     results[Len(results)])

Take(s, n) == SubSeq(s, 1, IF n < Len(s) THEN n ELSE Len(s))

\* lines 393-411
search_finish(f) ==
    LET sorted == sort_desc(f.results)
        validated_results == Take(Take(sorted, f.top_k * 2), f.top_k)
    IN  [f EXCEPT !.pc = "returned", !.results = sorted,
                  !.ret = Take(validated_results, f.top_k)]

(***************************************************************************)
(* Inputs of the search checks: a pool of jobs, the corpora made of them,  *)
(* and the queries, top_k and role arguments given to search.              *)
(***************************************************************************)
J1 == [ id |-> 1,
        title |-> <<"J","a","v","a"," ","D","e","v","e","l","o","p","e","r">>,
        skills |-> <<"J","a","v","a",",","R","e","a","c","t">>,
        jd_text |-> T_fs ]
J2 == [ id |-> 2,
        title |-> <<"D","e","v","O","p","s"," ","E","n","g","i","n","e","e","r">>,
        skills |-> <<"d","o","c","k","e","r",",","L","i","n","u","x">>,
        jd_text |-> T_dv ]
\* shares its id with J1; its skills cell is empty
J3 == [ id |-> 1,
        title |-> <<"C","h","e","f">>,
        skills |-> NaN,
        jd_text |-> T_gen ]
\* the description reads as devops, the title does not; eleven skills
J4 == [ id |-> 3,
        title |-> <<"D","a","t","a"," ","E","n","g","i","n","e","e","r">>,
        skills |-> <<"A","W","S",",","g","c","p",",","g","i","t",",","c","s","s",",","v","u","e",",","h","t","m","l",",","j","d","b","c",",","r","e","d","i","s",",","a","z","u","r","e",",","j","u","n","i","t",",","r","e","a","c","t">>,
        jd_text |-> T_data ]
JobPool == {J1, J2, J3, J4}

\* a CSV with or without a skills column, of 1..MaxJobs rows, no record
\* of the pool twice
Corpora ==
    { [ exists |-> TRUE, cols |-> BaseCols \cup extra,
        rows |-> [i \in 1..Len(rows) |->
                    IF "skills" \in extra THEN rows[i]
                    ELSE [rows[i] EXCEPT !.skills = NaN]] ] :
        extra \in {{}, {"skills"}},
        rows \in UNION { { s \in [1..n -> JobPool] :
                              \A a, b \in 1..n : a # b => s[a] # s[b] } :
                          n \in 1..MaxJobs } }

QueryPool == {T_fs, T_dv, T_gen, T_mix, T_data, T_five, T_six}
RoleArgs == {"None", "fullstack", "devops", "general"}

NoFile == [exists |-> FALSE]
\* passes counts the build passes begun so far; formed holds the stores whose
\* build_index or load_index ran to its end, failed those whose build raised
IdleBuild ==
    [ pc |-> "idle", store |-> 0, requests |-> 0, passes |-> 0, formed |-> {},
      failed |-> {}, err |-> "none" ]
\* guard_saw and index_saw record what the request found in the store when it
\* ran the guard of line 282 and when it queried the index (line 313)
\* formed / failed: the store's build or load had then run to its end / had
\* raised; after_formed: some store had been fully formed by then
NothingSeen ==
    [ index_set |-> FALSE, meta_set |-> FALSE, ntotal |-> 0, formed |-> FALSE,
      failed |-> FALSE, after_formed |-> FALSE ]
IdleRequest ==
    [ pc |-> "idle", query |-> <<>>, top_k |-> 0, role_arg |-> "None", store |-> 0,
      guard_saw |-> NothingSeen, index_saw |-> NothingSeen,
      status |-> "none", code |-> 0, role |-> "none", count |-> 0 ]

\* the state of the pure-function variables in the specifications of the store
FnUnused == fn_arg = <<>> /\ fn_ret = "none" /\ fn_pc = "unused"

(***************************************************************************)
(* Spec: one VectorStore used as a library (as rebuild_index.py does):     *)
(* build_index from the CSV on disk, then searches, one call at a time,    *)
(* the candidate loop one iteration per step.                              *)
(***************************************************************************)
Init ==
    /\ FnUnused
    /\ \E csv \in Corpora :
          disk = [csv |-> csv, index_file |-> NoFile, meta_file |-> NoFile,
                  fp_file |-> NoFile]
    /\ stores = <<NewStore>>
    /\ vector_store = 0
    /\ bld = IdleBuild
    /\ srch = IdleSearch
    /\ req = IdleRequest

SearchAtRest == srch.pc = "idle"

\* VectorStore.build_index, every step succeeding
Build ==
    /\ SearchAtRest
    /\ bld.passes = 0
    /\ LET built == build_index_store(stores[1], disk.csv, 1)
       IN  /\ stores' = [stores EXCEPT ![1] = built]
           /\ disk' = build_index_disk(disk, built)
    /\ bld' = [bld EXCEPT !.passes = 1, !.formed = {1}]
    /\ UNCHANGED <<fnvars, vector_store, srch, req>>

\* VectorStore.search up to the candidate loop
SearchCall ==
    /\ SearchAtRest
    /\ \E query \in QueryPool, top_k \in 1..MaxTopK, role_arg \in RoleArgs :
          IF guard_fails(stores[1])
          THEN srch' = [IdleSearch EXCEPT !.pc = "raised", !.err = "ValueError",
                                          !.query = query, !.top_k = top_k,
                                          !.role_arg = role_arg]
          ELSE \E cands \in index_search(stores[1].index, encode(query),
                                         SearchK(top_k, stores[1].job_metadata)) :
                  srch' = search_enter(stores[1], disk.csv, query, top_k, role_arg, cands)
    /\ stores' = IF guard_fails(stores[1]) THEN stores
                 ELSE [stores EXCEPT ![1].job_metadata =
                          job_metadata_after_filter(@, srch'.role)]
    /\ UNCHANGED <<fnvars, disk, vector_store, bld, req>>

\* one iteration of the candidate loop
LoopIter ==
    /\ srch.pc = "loop"
    /\ srch' = loop_body(srch, stores[1], disk.csv)
    /\ stores' = [stores EXCEPT ![1].job_metadata =
                     job_metadata_after_update(@, srch.cands[srch.i].idx)]
    /\ UNCHANGED <<fnvars, disk, vector_store, bld, req>>

\* the final sort and the return
SearchReturn ==
    /\ srch.pc = "sort"
    /\ srch' = search_finish(srch)
    /\ UNCHANGED <<fnvars, disk, stores, vector_store, bld, req>>

\* the caller has the list, or the exception: the frame is gone
SearchDone ==
    /\ srch.pc \in {"returned", "raised"}
    /\ srch' = IdleSearch
    /\ UNCHANGED <<fnvars, disk, stores, vector_store, bld, req>>

Next == Build \/ SearchCall \/ LoopIter \/ SearchReturn \/ SearchDone

Spec == Init /\ [][Next]_vars

(***************************************************************************)
(* VectorStore.load_index (vector_store.py 214-268): the index comes from  *)
(* the index file, the metadata from the CSV as it is now (pass 0: no      *)
(* build pass wrote it), with the four required columns only.  The         *)
(* fingerprint file is what _save_model_fingerprint wrote, or is absent,   *)
(* or holds no JSON ("garbled"), or holds JSON that is no object           *)
(* ("not_object", a non-empty list say).                                   *)
(***************************************************************************)
None == [is_none |-> TRUE]

\* _load_model_fingerprint, were the error of json.load not caught: the
\* caller gets no fingerprint to read and fails
_load_model_fingerprint_raises(d) ==
    IF ~d.fp_file.exists THEN None
    ELSE IF "garbled" \in DOMAIN d.fp_file THEN [exists |-> TRUE, not_object |-> TRUE]
    ELSE d.fp_file

\* _load_model_fingerprint, lines 64-73
_load_model_fingerprint(d) ==
    IF ~d.fp_file.exists THEN None
    ELSE IF "garbled" \in DOMAIN d.fp_file THEN None
    ELSE d.fp_file

\* lines 254-261: the warnings logged for the fingerprint
fingerprint_warnings(store, fingerprint) ==
    IF fingerprint = None THEN {}
    ELSE (IF fingerprint.model_name # store.model_name THEN {"model"} ELSE {})
         \cup (IF fingerprint.embedding_dim # store.index.d THEN {"dimension"} ELSE {})

load_index(store, d) ==
    IF ~d.index_file.exists THEN [store |-> store, ok |-> FALSE, warnings |-> {}]
    \* line 231: faiss.read_index raises on a file that holds no index, after
    \* the model was loaded (line 228); the except of line 266
    ELSE IF "garbled" \in DOMAIN d.index_file
    THEN [store |-> [store EXCEPT !.model = TRUE], ok |-> FALSE, warnings |-> {}]
    ELSE
    LET loaded == [store EXCEPT !.model = TRUE, !.index_set = TRUE,
                                !.index = d.index_file.index]
        required_cols == {"id", "title", "company", "location"}
        with_meta == [loaded EXCEPT !.meta_set = TRUE,
                         !.job_metadata = select_columns(d.csv, required_cols, 0)]
        fingerprint == _load_model_fingerprint(d)
    IN  IF ~d.csv.exists THEN [store |-> loaded, ok |-> FALSE, warnings |-> {}]
        ELSE IF ~(required_cols \subseteq d.csv.cols)
        THEN [store |-> loaded, ok |-> FALSE, warnings |-> {}]
        \* fingerprint.get on a value that is no dict: the except of line 266
        ELSE IF fingerprint # None /\ "not_object" \in DOMAIN fingerprint
        THEN [store |-> with_meta, ok |-> FALSE, warnings |-> {}]
        ELSE [ store |-> with_meta, ok |-> TRUE,
               warnings |-> fingerprint_warnings(with_meta, fingerprint) ]

\* the candidate loop run to its end, then the sort and the return
RECURSIVE run_loop(_, _, _)
run_loop(f, store, df) ==
    IF f.pc = "loop" THEN run_loop(loop_body(f, store, df), store, df)
    ELSE IF f.pc = "sort" THEN search_finish(f)
    ELSE f

\* app.py line 75
reported_role(role_arg, query) ==
    IF role_arg \in {"None", ""} THEN detect_role(query) ELSE role_arg

(***************************************************************************)
(* SpecServe: the Flask service.  One /index/build request and one /search *)
(* request at a time, each in its own thread of the threaded server, so    *)
(* their steps interleave; both work on the global vector_store.           *)
(***************************************************************************)
NoCsv == [exists |-> FALSE, cols |-> {}, rows |-> <<>>]
EmptyDisk ==
    [csv |-> NoCsv, index_file |-> NoFile, meta_file |-> NoFile, fp_file |-> NoFile]

\* the corpora of the service runs: two jobs, or one
ServeCorpora ==
    { c \in Corpora : "skills" \in c.cols /\ c.rows \in {<<J1, J2>>, <<J2>>} }
ServeQueries == {T_mix, T_dv}
\* the role field of the request body: absent (None), a known role, the
\* empty string, a string that names no role
ServeRoleArgs == {"None", "devops", "", "qa"}
\* top_k of a request: 5 is the default of app.py line 65
ServeTopK == {1, 5}

\* the data directory the process starts on: no index yet, or the files an
\* earlier run built from some corpus; the CSV may since have been removed
\* or replaced
ServeInit ==
    /\ FnUnused
    /\ \E csv \in ServeCorpora \cup {NoCsv} :
          \/ /\ disk = [EmptyDisk EXCEPT !.csv = csv]
             /\ bld = [IdleBuild EXCEPT !.pc = "boot"]
          \/ \E old \in ServeCorpora :
                /\ disk = [build_index_disk(EmptyDisk, build_index_store(NewStore, old, 1))
                              EXCEPT !.csv = csv]
                /\ bld = [IdleBuild EXCEPT !.pc = "boot", !.passes = 1]
    /\ stores = <<>>
    /\ vector_store = 0
    /\ srch = IdleSearch
    /\ req = IdleRequest

\* app.py 102-112, run as a script: a store is created and load_index tried;
\* the store stays the global whether or not the load worked
StartAsMain ==
    /\ bld.pc = "boot"
    /\ LET r == load_index(NewStore, disk)
       IN  /\ stores' = <<r.store>>
           /\ bld' = [bld EXCEPT !.pc = "idle", !.formed = IF r.ok THEN {1} ELSE {}]
    /\ vector_store' = 1
    /\ UNCHANGED <<fnvars, disk, srch, req>>

\* the module imported by a WSGI server: the global stays None
StartImported ==
    /\ bld.pc = "boot"
    /\ bld' = [bld EXCEPT !.pc = "idle"]
    /\ UNCHANGED <<fnvars, disk, stores, vector_store, srch, req>>

\* app.py line 32: a new VectorStore becomes the global
BuildBegin ==
    /\ bld.pc = "idle"
    /\ bld.requests < MaxBuilds
    /\ stores' = Append(stores, NewStore)
    /\ vector_store' = Len(stores) + 1
    /\ bld' = [bld EXCEPT !.pc = "created", !.store = Len(stores) + 1,
                          !.requests = @ + 1, !.passes = @ + 1, !.err = "none"]
    /\ UNCHANGED <<fnvars, disk, srch, req>>

BuildFailed(err) ==
    bld' = [bld EXCEPT !.pc = "failed", !.err = err, !.failed = @ \cup {bld.store}]

\* build_index lines 151-170: the CSV is read and job_metadata assigned
BuildRead ==
    /\ bld.pc = "created"
    /\ IF ~disk.csv.exists
       THEN /\ stores' = [stores EXCEPT ![bld.store].model = TRUE]
            /\ BuildFailed("FileNotFoundError")
       ELSE /\ stores' = [stores EXCEPT ![bld.store] =
                            build_metadata([@ EXCEPT !.model = TRUE], disk.csv, bld.passes)]
            /\ bld' = [bld EXCEPT !.pc = "read"]
    /\ UNCHANGED <<fnvars, disk, vector_store, srch, req>>

\* lines 176-181: the descriptions are embedded, which may fail, and an
\* empty index is assigned to self.index
BuildEmbed ==
    /\ bld.pc = "read"
    /\ \/ /\ BuildFailed("ProviderError")
          /\ UNCHANGED stores
       \/ /\ stores' = [stores EXCEPT ![bld.store] = build_create_index(@, bld.passes)]
          /\ bld' = [bld EXCEPT !.pc = "index_created"]
    /\ UNCHANGED <<fnvars, disk, vector_store, srch, req>>

\* line 182
BuildAdd ==
    /\ bld.pc = "index_created"
    /\ stores' = [stores EXCEPT ![bld.store] = build_add(@, disk.csv)]
    /\ bld' = [bld EXCEPT !.pc = "added"]
    /\ UNCHANGED <<fnvars, disk, vector_store, srch, req>>

\* line 185; the save may fail, before or after the file is opened
BuildSaveIndex ==
    /\ bld.pc = "added"
    /\ \/ /\ BuildFailed("OSError")
          /\ disk' \in save_failed(disk, "index_file")
       \/ /\ disk' = save_index(disk, stores[bld.store])
          /\ bld' = [bld EXCEPT !.pc = "index_saved"]
    /\ UNCHANGED <<fnvars, stores, vector_store, srch, req>>

\* line 186
BuildSaveMetadata ==
    /\ bld.pc = "index_saved"
    /\ \/ /\ BuildFailed("OSError")
          /\ disk' \in save_failed(disk, "meta_file")
       \/ /\ disk' = save_metadata(disk, stores[bld.store])
          /\ bld' = [bld EXCEPT !.pc = "metadata_saved"]
    /\ UNCHANGED <<fnvars, stores, vector_store, srch, req>>

\* line 187, and the success response of app.py 35-42
BuildSaveFingerprint ==
    /\ bld.pc = "metadata_saved"
    /\ \/ /\ BuildFailed("OSError")
          /\ disk' \in save_failed(disk, "fp_file")
       \/ /\ disk' = save_model_fingerprint(disk, stores[bld.store])
          /\ bld' = [bld EXCEPT !.pc = "idle", !.formed = @ \cup {bld.store}]
    /\ UNCHANGED <<fnvars, stores, vector_store, srch, req>>

\* app.py 44-49: the error response; the global keeps the store that failed
BuildRespondError ==
    /\ bld.pc = "failed"
    /\ bld' = [bld EXCEPT !.pc = "idle"]
    /\ UNCHANGED <<fnvars, disk, stores, vector_store, srch, req>>

Seen(s) ==
    [ index_set |-> stores[s].index_set, meta_set |-> stores[s].meta_set,
      ntotal |-> Len(stores[s].index.vecs), formed |-> s \in bld.formed,
      failed |-> s \in bld.failed, after_formed |-> bld.formed # {} ]

\* app.py 57-75: with no global store the request is answered 400
SearchRequest ==
    /\ req.pc = "idle"
    /\ bld.pc # "boot"
    /\ \E query \in ServeQueries, top_k \in ServeTopK, role_arg \in ServeRoleArgs :
          LET r == [IdleRequest EXCEPT !.query = query, !.top_k = top_k,
                                       !.role_arg = role_arg]
          IN  IF vector_store = 0
              THEN req' = [r EXCEPT !.pc = "responded", !.status = "error", !.code = 400]
              ELSE req' = [r EXCEPT !.pc = "call",
                                    !.role = reported_role(role_arg, query)]
    /\ UNCHANGED <<fnvars, disk, stores, vector_store, bld, srch>>

\* app.py line 78 and the guard of search, line 282, on the global store
SearchEnter ==
    /\ req.pc = "call"
    /\ req' = [req EXCEPT !.pc = "searching", !.store = vector_store,
                          !.guard_saw = Seen(vector_store)]
    /\ srch' = [IdleSearch EXCEPT
                  !.query = req.query, !.top_k = req.top_k, !.role_arg = req.role_arg,
                  !.pc = IF guard_fails(stores[vector_store]) THEN "raised" ELSE "guarded",
                  !.err = IF guard_fails(stores[vector_store]) THEN "ValueError" ELSE "none"]
    /\ UNCHANGED <<fnvars, disk, stores, vector_store, bld>>

\* lines 286-411: the index is queried as it is now; the rest of the call
\* reads job_metadata, which is not assigned again, and the CSV read at 319
SearchRun ==
    /\ req.pc = "searching"
    /\ srch.pc = "guarded"
    /\ LET store == stores[req.store]
       IN  \E cands \in index_search(store.index, encode(srch.query),
                                     SearchK(srch.top_k, store.job_metadata)) :
              srch' = run_loop(search_enter(store, disk.csv, srch.query, srch.top_k,
                                            srch.role_arg, cands),
                               store, disk.csv)
    /\ req' = [req EXCEPT !.index_saw = Seen(req.store)]
    /\ UNCHANGED <<fnvars, disk, stores, vector_store, bld>>

\* app.py 80-92
SearchRespond ==
    /\ req.pc = "searching"
    /\ srch.pc \in {"returned", "raised"}
    /\ IF srch.pc = "returned"
       THEN req' = [req EXCEPT !.pc = "responded", !.status = "success", !.code = 200,
                               !.count = Len(srch.ret)]
       ELSE req' = [req EXCEPT !.pc = "responded", !.status = "error", !.code = 500]
    /\ UNCHANGED <<fnvars, disk, stores, vector_store, bld, srch>>

\* the response is sent
RequestDone ==
    /\ req.pc = "responded"
    /\ req' = IdleRequest
    /\ srch' = IdleSearch
    /\ UNCHANGED <<fnvars, disk, stores, vector_store, bld>>

ServeNext ==
    \/ StartAsMain \/ StartImported
    \/ BuildBegin \/ BuildRead \/ BuildEmbed \/ BuildAdd
    \/ BuildSaveIndex \/ BuildSaveMetadata \/ BuildSaveFingerprint \/ BuildRespondError
    \/ SearchRequest \/ SearchEnter \/ SearchRun \/ SearchRespond \/ RequestDone

SpecServe == ServeInit /\ [][ServeNext]_vars

(***************************************************************************)
(* Inputs of the pure-function checks.                                     *)
(***************************************************************************)
\* words the texts given to detect_role are made of
WordPool ==
    { <<"R","e","a","c","t">>,                                 \* 1 fullstack hit
      <<"j","a","v","a","s","c","r","i","p","t">>,             \* 2: javascript, java
      <<"w","e","b"," ","d","e","v","e","l","o","p","e","r">>, \* 2: web developer, developer
      <<"d","o","c","k","e","r">>,                             \* 1 devops hit
      <<"A","W","S">>,                                         \* 1 devops hit
      <<"s","r","e">>,                                         \* 1 devops hit
      <<"c","h","e","f">> }                                    \* no hit

RECURSIVE JoinWords(_)
JoinWords(ws) ==
    IF Len(ws) = 0 THEN <<>>
    ELSE IF Len(ws) = 1 THEN ws[1]
    ELSE ws[1] \o <<" ">> \o JoinWords(Tail(ws))

RoleTexts ==
    { JoinWords(ws) : ws \in UNION { [1..n -> WordPool] : n \in 0..MaxWords } }

\* skill tokens the sets given to _jaccard_similarity are made of
SkillTokens ==
    << <<"j","a","v","a">>, <<"d","o","c","k","e","r">>, <<"r","e","a","c","t">>,
       <<"a","w","s">>, <<"g","i","t">>, <<"c","s","s">> >>

SkillUniverse == { SkillTokens[i] : i \in 1..MaxSkills }

\* the store variables, unused by the pure-function specifications
AppUnused ==
    /\ disk = [csv |-> NoFile, index_file |-> NoFile, meta_file |-> NoFile,
               fp_file |-> NoFile]
    /\ stores = <<>>
    /\ vector_store = 0
    /\ bld = IdleBuild
    /\ srch = IdleSearch
    /\ req = IdleRequest

(***************************************************************************)
(* SpecRole: detect_role applied to every text of RoleTexts.               *)
(***************************************************************************)
RoleInit ==
    /\ fn_arg \in RoleTexts
    /\ fn_ret = "none"
    /\ fn_pc = "call"
    /\ AppUnused

CallDetectRole ==
    /\ fn_pc = "call"
    /\ fn_ret' = detect_role(fn_arg)
    /\ fn_pc' = "done"
    /\ UNCHANGED <<fn_arg, appvars>>

SpecRole == RoleInit /\ [][CallDetectRole]_vars

(***************************************************************************)
(* SpecJaccard: _jaccard_similarity applied to every pair of skill sets.   *)
(***************************************************************************)
JaccardInit ==
    /\ fn_arg \in (SUBSET SkillUniverse) \X (SUBSET SkillUniverse)
    /\ fn_ret = Frac(0, 1)
    /\ fn_pc = "call"
    /\ AppUnused

CallJaccard ==
    /\ fn_pc = "call"
    /\ fn_ret' = _jaccard_similarity(fn_arg[1], fn_arg[2])
    /\ fn_pc' = "done"
    /\ UNCHANGED <<fn_arg, appvars>>

SpecJaccard == JaccardInit /\ [][CallJaccard]_vars

(***************************************************************************)
(* SpecIdem: search as a function of the generation it runs on.  The       *)
(* arguments (query, top_k, role) are fixed at the start; the corpus is    *)
(* built, searched, built a second time (by a new VectorStore, as app.py   *)
(* and rebuild_index.py do, or by build_index on the same object) and      *)
(* searched again.  fn_ret keeps what each of the two searches gave.       *)
(* IndexFlatIP computes its answer from the vectors and the query alone,   *)
(* so over the same vectors it answers the same query as before.           *)
(***************************************************************************)
\* the queries searched on both generations: the description of a job, and
\* a text that two descriptions are equally near to
IdemQueries == {T_dv, T_gen}

IdemInit ==
    /\ \E csv \in Corpora :
          disk = [csv |-> csv, index_file |-> NoFile, meta_file |-> NoFile,
                  fp_file |-> NoFile]
    /\ fn_arg \in IdemQueries \X (1..MaxTopK) \X RoleArgs
    /\ fn_ret = <<>>
    /\ fn_pc = "start"
    /\ stores = <<NewStore>>
    /\ vector_store = 1
    /\ bld = IdleBuild
    /\ srch = IdleSearch
    /\ req = IdleRequest

\* VectorStore.build_index on the current store, every step succeeding
IdemBuild ==
    /\ fn_pc \in {"start", "again"}
    /\ LET pass == bld.passes + 1
           built == build_index_store(stores[vector_store], disk.csv, pass)
       IN  /\ stores' = [stores EXCEPT ![vector_store] = built]
           /\ disk' = build_index_disk(disk, built)
           /\ bld' = [bld EXCEPT !.passes = pass, !.formed = @ \cup {vector_store}]
    /\ fn_pc' = "built"
    /\ UNCHANGED <<fn_arg, fn_ret, vector_store, srch, req>>

\* VectorStore.search on the current store with the fixed arguments
IdemSearch ==
    /\ fn_pc = "built"
    /\ LET store == stores[vector_store]
           all == index_search(store.index, encode(fn_arg[1]),
                               SearchK(fn_arg[2], store.job_metadata))
           answers == IF fn_ret # <<>> /\ fn_ret[1].vecs = store.index.vecs
                      THEN {fn_ret[1].cands} ELSE all
       IN  \E cands \in answers :
              LET f == run_loop(search_enter(store, disk.csv, fn_arg[1], fn_arg[2],
                                             fn_arg[3], cands),
                                store, disk.csv)
              IN  fn_ret' = Append(fn_ret, [ vecs |-> store.index.vecs, cands |-> cands,
                                             pc |-> f.pc, err |-> f.err, ret |-> f.ret ])
    /\ fn_pc' = IF fn_ret = <<>> THEN "searched" ELSE "compared"
    /\ UNCHANGED <<fn_arg, appvars>>

\* the second build is asked for: of a new VectorStore (app.py line 32,
\* rebuild_index.py line 27), or of the store there is
IdemAgain ==
    /\ fn_pc = "searched"
    /\ \/ /\ stores' = Append(stores, NewStore)
          /\ vector_store' = Len(stores) + 1
       \/ UNCHANGED <<stores, vector_store>>
    /\ fn_pc' = "again"
    /\ UNCHANGED <<fn_arg, fn_ret, disk, bld, srch, req>>

IdemNext == IdemBuild \/ IdemSearch \/ IdemAgain

SpecIdem == IdemInit /\ [][IdemNext]_vars

(***************************************************************************)
(* SpecLoad: a new process on the files an earlier run left.  That run     *)
(* built <<J1, J2>> with some model (rebuild_index.py --model); since then *)
(* the CSV may have been replaced or removed, the fingerprint file         *)
(* replaced, removed or damaged, and the index file cut short by a save    *)
(* that failed.  The store is VectorStore() of the default model;          *)
(* load_index is called, and searches follow.                              *)
(***************************************************************************)
ModelNames == {"all-MiniLM-L6-v2", "all-mpnet-base-v2"}
NewStoreOf(model_name) == [NewStore EXCEPT !.model_name = model_name]

CsvOf(rows) == [exists |-> TRUE, cols |-> BaseCols \cup {"skills"}, rows |-> rows]
BuiltRows == <<J1, J2>>
\* the CSV at load time: as built, reordered, shorter, longer, absent, or
\* without one of the required columns
LoadCsvs ==
    { CsvOf(rows) : rows \in {BuiltRows, <<J2, J1>>, <<J2>>, <<J1, J2, J4>>} }
        \cup {NoCsv, [CsvOf(BuiltRows) EXCEPT !.cols = @ \ {"location"}]}

\* the fingerprint file at load time: as saved, one saved by a build with
\* another model, none, one that is no JSON, one that is JSON and no object
OtherModel(model_name) == CHOOSE m \in ModelNames : m # model_name
Fingerprints(saved) ==
    { saved,
      [saved EXCEPT !.model_name = OtherModel(@),
                    !.embedding_dim = Dimension(OtherModel(saved.model_name))],
      NoFile,
      TruncatedFile,
      [exists |-> TRUE, not_object |-> TRUE] }

LoadInit ==
    /\ fn_arg = <<>> /\ fn_ret = "none" /\ fn_pc = "start"
    /\ \E m \in ModelNames, csv \in LoadCsvs :
          LET built == build_index_disk(EmptyDisk,
                          build_index_store(NewStoreOf(m), CsvOf(BuiltRows), 1))
          IN  \E fp \in Fingerprints(built.fp_file),
                    ix \in {built.index_file, TruncatedFile} :
                 disk = [built EXCEPT !.csv = csv, !.fp_file = fp, !.index_file = ix]
    /\ stores = <<NewStore>>
    /\ vector_store = 1
    /\ bld = [IdleBuild EXCEPT !.passes = 1]
    /\ srch = IdleSearch
    /\ req = IdleRequest

\* VectorStore.load_index; fn_ret keeps what it returned and what it logged
LoadIndex ==
    /\ fn_pc = "start"
    /\ SearchAtRest
    /\ LET r == load_index(stores[1], disk)
       IN  /\ stores' = <<r.store>>
           /\ fn_ret' = [ok |-> r.ok, warnings |-> r.warnings]
           /\ bld' = [bld EXCEPT !.formed = IF r.ok THEN {1} ELSE {}]
    /\ fn_pc' = "loaded"
    /\ UNCHANGED <<fn_arg, disk, vector_store, srch, req>>

LoadNext == LoadIndex \/ SearchCall \/ LoopIter \/ SearchReturn \/ SearchDone

SpecLoad == LoadInit /\ [][LoadNext]_vars

(***************************************************************************)
(* Claims.                                                                 *)
(***************************************************************************)
fs_of(text) == Hits(fullstack_keywords, lower(text))
dv_of(text) == Hits(devops_keywords, lower(text))

\* C1: detect_role returns one of fullstack, devops, general; general when
\* both hit counts are zero (so for the empty text); otherwise fullstack
\* exactly when fs > 2*dv, devops exactly when dv > 2*fs, general in every
\* remaining case.
C1_DetectRoleRule ==
    fn_pc = "done" =>
        LET fs == fs_of(fn_arg)
            dv == dv_of(fn_arg)
        IN  /\ fn_ret \in {"fullstack", "devops", "general"}
            /\ (fs = 0 /\ dv = 0) => fn_ret = "general"
            /\ fn_arg = <<>> => fn_ret = "general"
            /\ ~(fs = 0 /\ dv = 0) =>
                  /\ fn_ret = "fullstack" <=> fs > 2 * dv
                  /\ fn_ret = "devops" <=> dv > 2 * fs
                  /\ fn_ret = "general" <=> (fs <= 2 * dv /\ dv <= 2 * fs)

\* a mixed text on the boundary fs = 2*dv, answered general
C1_Witness ==
    /\ fn_pc = "done"
    /\ fs_of(fn_arg) = 2 /\ dv_of(fn_arg) = 1
    /\ fn_ret = "general"

\* C2: _jaccard_similarity is symmetric, is 1.0 on (A, A) for non-empty A,
\* 0.0 on ({}, {}), and always |A n B| / |A u B|, a value in [0, 1].
C2_JaccardLaws ==
    fn_pc = "done" =>
        LET A == fn_arg[1]
            B == fn_arg[2]
        IN  /\ FracEq(fn_ret, _jaccard_similarity(B, A))
            /\ (A = B /\ A # {}) => (fn_ret.num = fn_ret.den)
            /\ (A = {} /\ B = {}) => fn_ret.num = 0
            /\ (A \cup B # {}) =>
                  FracEq(fn_ret, Frac(Cardinality(A \cap B), Cardinality(A \cup B)))
            /\ fn_ret.den > 0 /\ 0 <= fn_ret.num /\ fn_ret.num <= fn_ret.den

\* two different, overlapping sets: the quotient is strictly between 0 and 1
C2_Witness ==
    /\ fn_pc = "done"
    /\ fn_arg[1] # fn_arg[2]
    /\ fn_arg[1] \cap fn_arg[2] # {}
    /\ 0 < fn_ret.num /\ fn_ret.num < fn_ret.den

(***************************************************************************)
(* Claims on the candidate loop of search, under Spec.                     *)
(***************************************************************************)
InSearch == srch.pc \in {"loop", "sort", "returned"}
CorpusSize == Len(disk.csv.rows)
LogIndex == 1..Len(srch.log)
\* the candidates that got as far as the threshold check of line 379
Scored(e) == e.outcome \in {"accepted", "dropped"}

\* C3: for top_k >= 1 the accepted-result list never holds more than top_k
\* entries while the candidate loop runs, and a search that returns normally
\* returns at most top_k results.
C3_AtMostTopK ==
    (InSearch /\ srch.top_k >= 1) =>
        /\ Len(srch.results) <= srch.top_k
        /\ srch.pc = "returned" => Len(srch.ret) <= srch.top_k

\* the loop broke with top_k results while candidates were still waiting
C3_Witness ==
    /\ srch.pc = "returned"
    /\ Len(srch.ret) = srch.top_k
    /\ srch.i <= Len(srch.cands)

\* C4 as stated: when top_k exceeds the corpus size N, search on the index
\* built from that corpus does not raise, and it returns at most N results.
C4_Original ==
    (srch.pc # "idle" /\ srch.top_k > CorpusSize /\ ~guard_fails(stores[1])) =>
        /\ srch.pc # "raised"
        /\ srch.pc = "returned" => Len(srch.ret) <= CorpusSize

\* What holds of C4 in every search: with top_k above N the index is asked
\* for min(top_k * 20, N) = N neighbours and gives N rows of the corpus and no
\* padding, at most N results are returned, and the one error raised is that
\* of a missing skills value (line 349), which no value of top_k causes.
C4_TopKAboveCorpus ==
    (srch.pc # "idle" /\ srch.top_k > CorpusSize /\ ~guard_fails(stores[1])) =>
        /\ InSearch =>
              /\ srch.search_k = CorpusSize
              /\ Len(srch.cands) = CorpusSize
              /\ \A i \in 1..Len(srch.cands) :
                    srch.cands[i].idx \in 0..(CorpusSize - 1)
              /\ Len(srch.results) <= CorpusSize
              /\ srch.pc = "returned" => Len(srch.ret) <= CorpusSize
        /\ srch.pc = "raised" => srch.err = "AttributeError"

\* top_k = 2 on a corpus of one job: the search returned that one job
C4_Witness ==
    /\ srch.pc = "returned"
    /\ srch.top_k > CorpusSize
    /\ Len(srch.ret) = CorpusSize

\* C5: no two results of search have the same job id, also when rows of the
\* corpus share an id.
C5_NoDuplicateIds ==
    InSearch =>
        /\ \A i, j \in 1..Len(srch.results) :
              i # j => srch.results[i].id # srch.results[j].id
        /\ \A i, j \in 1..Len(srch.ret) : i # j => srch.ret[i].id # srch.ret[j].id

\* a second row with an id already seen came up and line 335 skipped it
C5_Witness ==
    /\ srch.pc = "returned"
    /\ Len(srch.ret) >= 1
    /\ \E i \in LogIndex : srch.log[i].outcome = "skipped_seen"

\* C6 as stated: a candidate whose composite score is 0.18 is dropped, under
\* every role, also when fewer than top_k results were accepted so far.
C6_Original ==
    \A i \in LogIndex :
        (Scored(srch.log[i]) /\ FracEq(srch.log[i].score, Frac(18, 100)))
            => srch.log[i].outcome = "dropped"

\* C6 as amended: a candidate that reaches the threshold check with composite
\* score 0.18 is accepted, under every role (fewer than top_k results are
\* accepted at that point, so the role's minimum is relaxed to the 0.15 floor).
C6_Amended ==
    \A i \in LogIndex :
        (Scored(srch.log[i]) /\ FracEq(srch.log[i].score, Frac(18, 100)))
            => /\ srch.log[i].outcome = "accepted"
               /\ srch.log[i].n_before < srch.top_k

\* role fullstack (minimum 0.25): a candidate of score 0.18 was accepted
C6_Witness ==
    /\ srch.role = "fullstack"
    /\ \E i \in LogIndex :
          /\ FracEq(srch.log[i].score, Frac(18, 100))
          /\ srch.log[i].outcome = "accepted"

\* C7: the relaxation stops at the floor: at the threshold check a score of
\* exactly 0.15 is accepted when fewer than top_k results are accepted, a
\* score below 0.15 is rejected in every state, and every result has
\* score >= 0.15.
C7_FloorNeverCrossed ==
    /\ \A i \in LogIndex :
          LET e == srch.log[i]
          IN  Scored(e) =>
                /\ (FracEq(e.score, Frac(15, 100)) /\ e.n_before < srch.top_k)
                      => e.outcome = "accepted"
                /\ FracLt(e.score, Frac(15, 100)) => e.outcome = "dropped"
    /\ \A i \in 1..Len(srch.results) : FracLe(Frac(15, 100), srch.results[i].score)
    /\ \A i \in 1..Len(srch.ret) : FracLe(Frac(15, 100), srch.ret[i].score)

\* one search accepted a candidate of score exactly 0.15 and rejected one below
C7_Witness ==
    /\ srch.pc = "returned"
    /\ \E i \in LogIndex :
          FracEq(srch.log[i].score, Frac(15, 100)) /\ srch.log[i].outcome = "accepted"
    /\ \E i \in LogIndex :
          FracLt(srch.log[i].score, Frac(15, 100)) /\ srch.log[i].outcome = "dropped"

\* the ids of the CSV rows are pairwise distinct
UniqueIds ==
    \A a, b \in 1..CorpusSize : a # b => disk.csv.rows[a].id # disk.csv.rows[b].id

\* the record of the CSV that a logged candidate's row index points at; the
\* padding index -1 points at the last record, as iloc[-1] does
CsvRecord(idx) ==
    IF idx < 0 THEN disk.csv.rows[Len(disk.csv.rows) + idx + 1]
    ELSE disk.csv.rows[idx + 1]

\* a search, returning or raising, role not supplied, whose query is the
\* description of the job of the first retrieved candidate (raw similarity 1.0)
RoundTrip ==
    /\ srch.pc \in {"loop", "sort", "returned", "raised"}
    /\ Len(srch.cands) >= 1
    /\ UniqueIds
    /\ srch.role_arg = "None"
    /\ srch.cands[1].sim = 32
    /\ disk.csv.rows[srch.cands[1].idx + 1].jd_text = srch.query
RoundTripJob == disk.csv.rows[srch.cands[1].idx + 1]
\* the call is over: the caller has the list, or the exception
RoundTripOver == RoundTrip /\ srch.pc \in {"returned", "raised"}
\* the role gate lets the job through: the detected role is general, or the
\* job's title matches its pattern, or no title of the corpus matches it
RoundTripUngated == srch.cands[1].idx \in srch.filtered \/ srch.filtered = {}

\* the list returned holds the job at or near rank 1: with a composite score
\* of at least 0.77 (raw similarity 1.0 blended with any overlap), and below
\* no result but those of a strictly higher composite score
AtOrNearRank1 ==
    \E p \in 1..Len(srch.ret) :
        /\ srch.ret[p].id = RoundTripJob.id
        /\ FracLe(Frac(77, 100), srch.ret[p].score)
        /\ \A q \in 1..(p - 1) : FracLt(srch.ret[p].score, srch.ret[q].score)

\* the search raised at line 349 on the missing skills value of the row it
\* was scoring, in a corpus that has a skills column
RaisedOnMissingSkills ==
    /\ srch.pc = "raised"
    /\ srch.err = "AttributeError"
    /\ "skills" \in disk.csv.cols
    /\ CsvRecord(srch.cands[srch.i].idx).skills = NaN

LoggedId(i) == stores[1].job_metadata.rows[srch.log[i].idx + 1].id
InRange(i) == srch.log[i].idx \in 0..(Len(stores[1].job_metadata.rows) - 1)

\* C15 as stated: an in-range candidate is skipped as already seen only if
\* an earlier candidate of the same search had the same job id, never
\* because its row index equals the job id of another, earlier candidate.
C15_Original ==
    \A i \in LogIndex :
        (InRange(i) /\ srch.log[i].outcome \in {"skipped_index", "skipped_seen"}) =>
            \E j \in 1..(i - 1) : InRange(j) /\ LoggedId(j) = LoggedId(i)

\* What holds of C15: the check of line 335 skips a row only for a job id
\* seen before; every other skip of an in-range row is made by line 329, for
\* a row index that is among the job ids seen.
C15_SkippedForIndex ==
    \A i \in LogIndex :
        /\ srch.log[i].outcome = "skipped_seen" =>
              \E j \in 1..(i - 1) : InRange(j) /\ LoggedId(j) = LoggedId(i)
        /\ (InRange(i) /\ srch.log[i].outcome = "skipped_index") =>
              \E j \in 1..(i - 1) : InRange(j) /\ LoggedId(j) = srch.log[i].idx

RolePattern(role) == IF role = "fullstack" THEN FullstackPattern ELSE DevopsPattern
\* some title of the corpus matches the pattern of the role
SomeTitleMatches(role) ==
    \E r \in 1..Len(stores[1].job_metadata.rows) :
        str_contains(stores[1].job_metadata.rows[r].title, RolePattern(role))

\* C16: with role fullstack or devops and some title of the corpus matching
\* the role's pattern, every result has a title that matches it; with role
\* general, or no title matching, no candidate is left out for its title.
C16_RoleGate ==
    InSearch =>
        IF srch.role \in {"fullstack", "devops"} /\ SomeTitleMatches(srch.role)
        THEN /\ \A i \in 1..Len(srch.results) :
                   str_contains(srch.results[i].title, RolePattern(srch.role))
             /\ \A i \in 1..Len(srch.ret) :
                   str_contains(srch.ret[i].title, RolePattern(srch.role))
        ELSE \A i \in LogIndex : srch.log[i].outcome # "skipped_role"

\* role devops: a row of another title was left out, a devops title returned
C16_Witness ==
    /\ srch.pc = "returned"
    /\ srch.role = "devops"
    /\ \E i \in LogIndex : srch.log[i].outcome = "skipped_role"
    /\ Len(srch.ret) >= 1

\* 1.1 * (0.70 * s + 0.30 * o) as one quotient of integers
Blend(s, o) ==
    [ num |-> 11 * (7 * s.num * o.den + 3 * o.num * s.den),
      den |-> 100 * s.den * o.den ]
\* x = min(b, 1.0)
IsClamped(x, b) ==
    IF b.num > b.den THEN x.num = x.den
    ELSE x.num * b.den = b.num * x.den
ScoreAsStated(r) ==
    /\ r.similarity.den > 0 /\ r.skillOverlap.den > 0 /\ r.score.den > 0
    /\ IsClamped(r.score, Blend(r.similarity, r.skillOverlap))
    /\ 0 <= r.score.num /\ r.score.num <= r.score.den

\* C17: every result of search has
\* score = min(1.1 * (0.70 * similarity + 0.30 * skillOverlap), 1.0), of its
\* own similarity and skillOverlap fields, and a score in [0, 1].
C17_CompositeScore ==
    InSearch =>
        /\ \A i \in 1..Len(srch.results) : ScoreAsStated(srch.results[i])
        /\ \A i \in 1..Len(srch.ret) : ScoreAsStated(srch.ret[i])

\* one search returned a result whose blend, above 1, was cut to 1.0 and a
\* result whose score is below 1
C17_Witness ==
    /\ srch.pc = "returned"
    /\ \E i \in 1..Len(srch.ret) :
          LET b == Blend(srch.ret[i].similarity, srch.ret[i].skillOverlap)
          IN  b.num > b.den /\ srch.ret[i].score.num = srch.ret[i].score.den
    /\ \E i \in 1..Len(srch.ret) : srch.ret[i].score.num < srch.ret[i].score.den

\* the place in retrieval order of the candidate that became result r
RetrievedAt(r) ==
    CHOOSE k \in LogIndex : srch.log[k].outcome = "accepted" /\ LoggedId(k) = r.id

\* C18: the list returned is in non-increasing order of composite score,
\* and results of equal score are in the order of their retrieval from the
\* index, which is by descending raw similarity.
C18_Ordering ==
    srch.pc = "returned" =>
        \A i, j \in 1..Len(srch.ret) :
            i < j =>
                /\ FracLe(srch.ret[j].score, srch.ret[i].score)
                /\ FracEq(srch.ret[i].score, srch.ret[j].score) =>
                      /\ RetrievedAt(srch.ret[i]) < RetrievedAt(srch.ret[j])
                      /\ FracLe(srch.ret[j].similarity, srch.ret[i].similarity)

\* two results of equal score were returned
C18_Witness ==
    /\ srch.pc = "returned"
    /\ Len(srch.ret) = 2
    /\ FracEq(srch.ret[1].score, srch.ret[2].score)

\* What holds of C19 for build_index: the store it leaves has index and
\* job_metadata of that one pass, of equal length and aligned row for row.
C19_BuiltAligned ==
    ~guard_fails(stores[1]) =>
        /\ stores[1].index.pass = stores[1].job_metadata.pass
        /\ Len(stores[1].index.vecs) = Len(stores[1].job_metadata.rows)
        /\ \A r \in 1..Len(stores[1].index.vecs) :
              /\ stores[1].index.vecs[r] = encode(disk.csv.rows[r].jd_text)
              /\ stores[1].job_metadata.rows[r].id = disk.csv.rows[r].id

LoggedRecord(i) == CsvRecord(srch.log[i].idx)
\* the record has a skills value, and not an empty one
HasSkills(rec) == "skills" \in disk.csv.cols /\ rec.skills # NaN /\ Len(rec.skills) > 0
SkillsAsStated(i) ==
    IF HasSkills(LoggedRecord(i))
    THEN srch.log[i].job_skills = skills_field_set(LoggedRecord(i).skills)
    ELSE srch.log[i].job_skills = extract_skills(LoggedRecord(i).jd_text)

\* C20 as stated: for every scored candidate the job skill set is the
\* lower-cased comma-split of the record's skills value when there is one,
\* and extract_skills(description) when the skills field is absent or empty,
\* and then search does not fail.
C20_Original ==
    /\ \A i \in LogIndex : Scored(srch.log[i]) => SkillsAsStated(i)
    /\ srch.pc = "raised" => srch.err # "AttributeError"

\* What holds of C20 after build_index: every candidate that is scored has
\* the skill set as stated, the split of the stored value or, with no skills
\* column, the skills extracted from the description; a candidate whose
\* skills cell is empty in a CSV that has the column is not scored: search
\* raises on it.
C20_BuiltSkills ==
    /\ \A i \in LogIndex : Scored(srch.log[i]) => SkillsAsStated(i)
    /\ (srch.pc = "raised" /\ srch.err = "AttributeError") =>
          /\ "skills" \in disk.csv.cols
          /\ CsvRecord(srch.cands[srch.i].idx).skills = NaN

\* what a search is served from
ServingState(store) ==
    [index |-> store.index, job_metadata |-> store.job_metadata,
     model_name |-> store.model_name]
\* a step of search: the call, an iteration of the loop, the sort and return,
\* or the hand-over of the list or the exception to the caller
SearchStep == srch' # srch

\* C21: no step of a search, returning or raising, changes the index, the
\* job metadata (rows and columns) or the model name of the store, so every
\* search of one generation is served from the same index and metadata.
C21_SearchFrame ==
    [][SearchStep => ServingState(stores'[1]) = ServingState(stores[1])]_vars

\* a search under a role whose filter kept only a part of the rows has
\* scored and returned a result, and the store has every row of the corpus
C21_Witness ==
    /\ srch.pc = "returned"
    /\ srch.role \in {"fullstack", "devops"}
    /\ srch.filtered # {}
    /\ srch.filtered # 0..(Len(disk.csv.rows) - 1)
    /\ Len(srch.ret) >= 1
    /\ Len(stores[1].job_metadata.rows) = Len(disk.csv.rows)
    /\ \A r \in 1..Len(disk.csv.rows) :
          stores[1].job_metadata.rows[r].title = disk.csv.rows[r].title

\* C22: for top_k >= 1, whenever the threshold check of line 379 is
\* evaluated fewer than top_k results are accepted, so the minimum of the
\* role rejects nothing on its own: a candidate that reaches the check is
\* accepted exactly when its composite score is >= 0.15, under every role.
C22_RoleMinimumIdle ==
    srch.top_k >= 1 =>
        \A i \in LogIndex :
            LET e == srch.log[i]
            IN  Scored(e) =>
                  /\ e.n_before < srch.top_k
                  /\ e.outcome = "accepted" <=> FracLe(Frac(15, 100), e.score)

\* a search for two results has returned; its second result was accepted
\* with a score below the minimum of the role, and the loop ended there
C22_Witness ==
    /\ srch.pc = "returned"
    /\ srch.top_k = 2
    /\ Len(srch.ret) = 2
    /\ \E i \in LogIndex :
          /\ srch.log[i].outcome = "accepted"
          /\ srch.log[i].n_before = 1
          /\ FracLt(srch.log[i].score, min_threshold(srch.role))

\* the candidates of the search, by place in retrieval order
CandIndex == 1..Len(srch.cands)
CandId(k) == CsvRecord(srch.cands[k].idx).id
\* no earlier candidate of the search has the job id of candidate k
NotADuplicate(k) == \A j \in 1..(k - 1) : CandId(j) # CandId(k)
PassesRoleGate(k) == ~outside_role_filter(srch.filtered, srch.cands[k].idx, srch.role)
CandScore(k) ==
    LET rec == CsvRecord(srch.cands[k].idx)
        job_skills == IF HasSkills(rec) THEN skills_field_set(rec.skills)
                      ELSE extract_skills(rec.jd_text)
    IN  composite_score(SimValue(srch.cands[k].sim),
                        _jaccard_similarity(srch.resume_skills, job_skills))
PassesThreshold(k) == FracLe(Frac(15, 100), CandScore(k))
Passes(k) == NotADuplicate(k) /\ PassesRoleGate(k) /\ PassesThreshold(k)
\* the first top_k passing candidates
FirstPassing ==
    { k \in CandIndex :
        Passes(k) /\ Cardinality({ j \in 1..(k - 1) : Passes(j) }) < srch.top_k }
ReturnedIds == { srch.ret[i].id : i \in 1..Len(srch.ret) }

\* C23 as stated: the results returned are exactly the first top_k
\* candidates, in retrieval order, that are no duplicate of an earlier
\* candidate, pass the role gate and pass the threshold check; the sort only
\* reorders them.
C23_Original ==
    srch.pc = "returned" =>
        /\ ReturnedIds = { CandId(k) : k \in FirstPassing }
        /\ Len(srch.ret) = Cardinality(FirstPassing)

\* the job ids in seen_jobs when candidate k comes up: line 329 skips a
\* candidate whose row index is among them before its id is added
SeenBefore(k) ==
    LET seen[n \in 0..Len(srch.cands)] ==
            IF n = 0 THEN {}
            ELSE IF srch.cands[n].idx \in seen[n - 1] THEN seen[n - 1]
            ELSE seen[n - 1] \cup {CandId(n)}
    IN  seen[k - 1]
PassesAsCoded(k) ==
    /\ srch.cands[k].idx \notin SeenBefore(k)
    /\ CandId(k) \notin SeenBefore(k)
    /\ PassesRoleGate(k)
    /\ PassesThreshold(k)
FirstAccepted ==
    { k \in CandIndex :
        PassesAsCoded(k)
        /\ Cardinality({ j \in 1..(k - 1) : PassesAsCoded(j) }) < srch.top_k }

\* What holds of C23: with the skip of line 329 counted among the checks,
\* the results returned are exactly the first top_k candidates in retrieval
\* order that pass them; the loop looks at no candidate after the top_k-th
\* accepted one, and the sort adds and removes nothing.
C23_FirstAccepted ==
    srch.pc = "returned" =>
        /\ ReturnedIds = { CandId(k) : k \in FirstAccepted }
        /\ Len(srch.ret) = Cardinality(FirstAccepted)
        /\ \A k \in CandIndex :
              k \in FirstAccepted <=>
                  (k \in LogIndex /\ srch.log[k].outcome = "accepted")
        /\ Cardinality(FirstAccepted) = srch.top_k =>
              \A k \in FirstAccepted : Len(srch.log) >= k
        /\ (Cardinality(FirstAccepted) = srch.top_k /\ Len(srch.log) > 0) =>
              Len(srch.log) \in FirstAccepted

(***************************************************************************)
(* Claims on the service, under SpecServe.                                 *)
(***************************************************************************)
\* the request has run the guard of search on a store
Entered == req.pc \in {"searching", "responded"} /\ req.store # 0

\* C8: a search on a store whose index or job_metadata is None raises at the
\* guard (ValueError) and returns no list, and /search then answers with an
\* error status (500; 400 when there is no store at all), never with a
\* success response; every success response comes from a store that had both.
C8_NoIndexNoResults ==
    /\ (Entered /\ (~req.guard_saw.index_set \/ ~req.guard_saw.meta_set)) =>
          /\ srch.pc = "raised" /\ srch.err = "ValueError"
          /\ srch.ret = <<>> /\ srch.results = <<>>
          /\ req.pc = "responded" => (req.status = "error" /\ req.code = 500)
    /\ (req.pc = "responded" /\ req.store = 0) =>
          (req.status = "error" /\ req.code = 400)
    /\ (req.pc = "responded" /\ req.status = "success") =>
          (req.guard_saw.index_set /\ req.guard_saw.meta_set)

\* a request on a store that has an index and no metadata got the error answer
C8_Witness ==
    /\ req.pc = "responded"
    /\ req.store # 0
    /\ req.guard_saw.index_set /\ ~req.guard_saw.meta_set
    /\ req.status = "error" /\ srch.err = "ValueError"

\* C9 as stated: once a fully built generation has been serving, every search
\* reads a fully formed store, both when it runs the guard and when it
\* queries the index: never the store of a build still in progress.
C9_Original ==
    Entered =>
        /\ req.guard_saw.after_formed => req.guard_saw.formed
        /\ req.index_saw.after_formed => req.index_saw.formed

\* C10 as stated: when build_index raises, no persisted artifact is of the
\* failing pass, index, metadata and fingerprint on disk are of one and the
\* same pass, and the store that failed answers no later search.
\* the pass each file on disk is of: 0 for no file, -1 for a file that a
\* failed save truncated, which is of no pass
ArtifactPasses ==
    << IF ~disk.index_file.exists THEN 0
       ELSE IF disk.index_file = TruncatedFile THEN -1
       ELSE disk.index_file.index.pass,
       IF ~disk.meta_file.exists THEN 0
       ELSE IF disk.meta_file = TruncatedFile THEN -1
       ELSE disk.meta_file.meta.pass,
       IF ~disk.fp_file.exists THEN 0
       ELSE IF disk.fp_file = TruncatedFile THEN -1
       ELSE disk.fp_file.pass >>

C10_Original ==
    /\ bld.pc = "failed" =>
          /\ \A i \in 1..3 : ArtifactPasses[i] # bld.passes
          /\ ArtifactPasses[1] = ArtifactPasses[2]
          /\ ArtifactPasses[2] = ArtifactPasses[3]
    /\ (req.pc = "responded" /\ req.status = "success") => ~req.guard_saw.failed

\* C11 as stated: the role field of every success response of /search is the
\* role that search applied to filter and threshold, whatever the role field
\* of the request was.
C11_Original ==
    (req.pc = "responded" /\ req.status = "success") => req.role = srch.role

\* What holds of C11: search applies the caller's role when one is given (any
\* string, the empty one too) and detect_role(query) otherwise, and the
\* response reports the applied role unless the request's role is "".
C11_RoleApplied ==
    (req.pc = "responded" /\ req.status = "success") =>
        /\ srch.role = IF req.role_arg = "None" THEN detect_role(req.query)
                       ELSE req.role_arg
        /\ req.role_arg # "" => req.role = srch.role
        /\ req.role_arg = "" => req.role = detect_role(req.query)

(***************************************************************************)
(* Claim on rebuilding, under SpecIdem.                                    *)
(***************************************************************************)
\* C13: the same corpus built twice with the same model gives two
\* generations on which search(query, top_k, role) ends the same way and
\* returns the same ordered list of results, ids and scores alike.
C13_Idempotent ==
    fn_pc = "compared" =>
        /\ fn_ret[1].pc = fn_ret[2].pc
        /\ fn_ret[1].err = fn_ret[2].err
        /\ Len(fn_ret[1].ret) = Len(fn_ret[2].ret)
        /\ \A i \in 1..Len(fn_ret[1].ret) :
              /\ fn_ret[1].ret[i].id = fn_ret[2].ret[i].id
              /\ fn_ret[1].ret[i].score = fn_ret[2].ret[i].score

\* the store was built a second time and both searches returned two results
C13_Witness ==
    /\ fn_pc = "compared"
    /\ bld.passes = 2 /\ Len(stores) = 1
    /\ fn_ret[2].pc = "returned"
    /\ Len(fn_ret[2].ret) = 2

(***************************************************************************)
(* Claims on loading, under SpecLoad.                                      *)
(***************************************************************************)
\* the index file and the CSV exist, the index file holds an index, the CSV
\* has the required columns, and the fingerprint is one that was saved
\* (matching or not), or is missing, or cannot be read
LoadPremise ==
    /\ disk.index_file.exists
    /\ disk.index_file # TruncatedFile
    /\ disk.csv.exists
    /\ {"id", "title", "company", "location"} \subseteq disk.csv.cols
    /\ "not_object" \notin DOMAIN disk.fp_file
Loaded == fn_pc = "loaded"

\* C14 as stated: under that premise load_index returns True and search
\* proceeds: no search on the loaded store fails.
C14_Original ==
    (Loaded /\ LoadPremise) => (fn_ret.ok /\ srch.pc # "raised")

\* C14 as amended: under that premise load_index returns True, with index
\* and job_metadata set, whatever the fingerprint says; a search then fails
\* only if the loaded index has another dimension than the configured
\* model, and then with the assertion of the index, line 313.
C14_LoadNotBlocked ==
    (Loaded /\ LoadPremise) =>
        /\ fn_ret.ok
        /\ ~guard_fails(stores[1])
        /\ srch.pc = "raised" =>
              (srch.err = "AssertionError" /\ query_dim_mismatch(stores[1]))
        /\ (srch.pc # "idle" /\ ~query_dim_mismatch(stores[1])) => InSearch

\* the fingerprint names another model and another dimension than the index
\* and the store have; both warnings were logged and a search returned a job
C14_Witness ==
    /\ Loaded /\ LoadPremise
    /\ fn_ret.warnings = {"model", "dimension"}
    /\ srch.pc = "returned" /\ Len(srch.ret) >= 1

\* row r of the index and row r of job_metadata are of one job: the vector
\* is that of the description of the job the metadata row names
SameJob(store, r) ==
    \E job \in JobPool :
        /\ store.index.vecs[r] = encode(job.jd_text)
        /\ store.job_metadata.rows[r].id = job.id
        /\ store.job_metadata.rows[r].title = job.title
Aligned(store) ==
    /\ Len(store.index.vecs) = Len(store.job_metadata.rows)
    /\ \A r \in 1..Len(store.index.vecs) : SameJob(store, r)

\* C19 as stated, in what a search can observe: a searchable store has as
\* many vectors as metadata rows, row for row of the same job, and a load
\* whose index and corpus differ in length is rejected.
C19_Original ==
    /\ ~guard_fails(stores[1]) => Aligned(stores[1])
    /\ (Loaded /\ disk.csv.exists /\ disk.index_file # TruncatedFile
          /\ Len(disk.index_file.index.vecs) # Len(disk.csv.rows)) => ~fn_ret.ok

\* What holds of C19: a store that load_index made searchable has the
\* vectors of the index file and the rows of the CSV as it is at load time,
\* whatever their lengths; the two are aligned if the CSV still has the rows
\* the index was built from.
C19_LoadedFromCsv ==
    (Loaded /\ ~guard_fails(stores[1])) =>
        /\ stores[1].index = disk.index_file.index
        /\ Len(stores[1].job_metadata.rows) = Len(disk.csv.rows)
        /\ stores[1].job_metadata.pass # stores[1].index.pass
        /\ disk.csv.rows = BuiltRows => Aligned(stores[1])

\* What holds of C20 after load_index: job_metadata has no skills column, so
\* every scored candidate has the skills extracted from the description in
\* the CSV, also when the record has a skills value; no search fails on a
\* skills value.
C20_LoadedSkills ==
    Loaded =>
        /\ \A i \in LogIndex :
              Scored(srch.log[i]) =>
                  srch.log[i].job_skills = extract_skills(LoggedRecord(i).jd_text)
        /\ srch.pc = "raised" => srch.err # "AttributeError"

====
